---- MODULE Spec2Model ----
(***************************************************************************)
(* Model of the schema subsystem of borsh (src/borsh/src/schema.rs):       *)
(* the Declaration / Definition data model, the declaration() and          *)
(* add_definitions_recursively() implementations of the built-in type      *)
(* shapes, add_definition() and schema_container().                        *)
(*                                                                         *)
(* A Rust type is a value [kind, name, args, n]; a call of                 *)
(* T::add_definitions_recursively is a frame on a per-caller call stack.   *)
(***************************************************************************)
EXTENDS Integers, Sequences, FiniteSets, TLC

VARIABLES
    status,       \* per caller: "idle", "running", "returned", "panicked", "stack_overflow"
    root,         \* per caller: the type Self of its schema_container() call
    stack,        \* per caller: call stack of add_definitions_recursively frames
    definitions,  \* per caller: its HashMap<Declaration, Definition>
    container,    \* per caller: the BorshSchemaContainer returned (or NoContainer)
    last          \* per caller: the most recent add_definition call and its outcome

vars == <<status, root, stack, definitions, container, last>>

(***************************************************************************)
(* Bounds                                                                  *)
(***************************************************************************)
\* number of independent callers (threads) of schema_container
NumCalls == 3
\* capacity of a caller's call stack, in add_definitions_recursively frames;
\* the deepest type without self-reference below needs 6
MaxStack == 9

Calls == 1..NumCalls

(***************************************************************************)
(* Rust types                                                              *)
(***************************************************************************)
\* a usize value hi * 2^32 + lo, kept as two limbs
Usize(hi, lo) == [hi |-> hi, lo |-> lo]
NoLen == Usize(0, 0)

Ty(kind, name, args, n) == [kind |-> kind, name |-> name, args |-> args, n |-> n]

Prim(name) == Ty("Prim", name, <<>>, NoLen)
BoxOf(T) == Ty("Box", "", <<T>>, NoLen)
ArrayOf(T, N) == Ty("Array", "", <<T>>, N)
OptionOf(T) == Ty("Option", "", <<T>>, NoLen)
ResultOf(T, E) == Ty("Result", "", <<T, E>>, NoLen)
VecOf(T) == Ty("Vec", "", <<T>>, NoLen)
SliceOf(T) == Ty("Slice", "", <<T>>, NoLen)
HashMapOf(K, V) == Ty("HashMap", "", <<K, V>>, NoLen)
HashSetOf(T) == Ty("HashSet", "", <<T>>, NoLen)
BTreeMapOf(K, V) == Ty("BTreeMap", "", <<K, V>>, NoLen)
BTreeSetOf(T) == Ty("BTreeSet", "", <<T>>, NoLen)
PhantomDataOf(T) == Ty("PhantomData", "", <<T>>, NoLen)
TupleOf(Ts) == Ty("Tuple", "", Ts, NoLen)
\* a user-defined struct with a derived schema, identified by its path
User(path) == Ty("User", path, <<>>, NoLen)

\* the Rust types of impl_for_primitives! / impl_for_renamed_primitives!
PrimitiveNames ==
    {"bool", "f32", "f64", "i8", "i16", "i32", "i64", "i128",
     "u8", "u16", "u32", "u64", "u128"}
RenamedPrimitiveNames == {"String", "str", "isize", "usize"}
UnitName == "()"

(***************************************************************************)
(* Definition and Fields                                                   *)
(***************************************************************************)
DefArray(length, elements) == [kind |-> "Array", length |-> length, elements |-> elements]
DefSequence(elements) == [kind |-> "Sequence", elements |-> elements]
DefTuple(elements) == [kind |-> "Tuple", elements |-> elements]
DefEnum(variants) == [kind |-> "Enum", variants |-> variants]
DefStruct(fields) == [kind |-> "Struct", fields |-> fields]
NamedFields(fs) == [kind |-> "NamedFields", fields |-> fs]
NoDefinition == [kind |-> "none"]

(***************************************************************************)
(* Number conversions                                                      *)
(***************************************************************************)
\* `N as u32`: the low 32 bits of the usize
AsU32(N) == N.lo

Pad4(k) ==
    IF k < 10 THEN "000" \o ToString(k)
    ELSE IF k < 100 THEN "00" \o ToString(k)
    ELSE IF k < 1000 THEN "0" \o ToString(k)
    ELSE ToString(k)

\* format!("{}", N) of a usize: decimal digits of hi * 4294967296 + lo,
\* computed in chunks of four digits (2^32 = 42 9496 7296)
FormatUsize(N) ==
    LET c0 == N.hi * 7296 + (N.lo % 10000)
        c1 == N.hi * 9496 + ((N.lo \div 10000) % 10000) + (c0 \div 10000)
        c2 == N.hi * 42 + (N.lo \div 100000000) + (c1 \div 10000)
    IN  IF c2 > 0 THEN ToString(c2) \o Pad4(c1 % 10000) \o Pad4(c0 % 10000)
        ELSE IF c1 > 0 THEN ToString(c1) \o Pad4(c0 % 10000)
        ELSE ToString(c0)

(***************************************************************************)
(* declaration() of each impl; the parameters are the declarations of the  *)
(* type parameters                                                         *)
(***************************************************************************)
Unit_declaration == "nil"

Primitive_declaration(name) == name

RenamedPrimitive_declaration(name) ==
    CASE name = "String" -> "string"
      [] name = "str" -> "string"
      [] name = "isize" -> "i64"
      [] name = "usize" -> "u64"

Box_declaration(dT) == dT

Array_declaration(dT, N) == "Array<" \o dT \o ", " \o FormatUsize(N) \o ">"

Option_declaration(dT) == "Option<" \o dT \o ">"

Result_declaration(dT, dE) == "Result<" \o dT \o ", " \o dE \o ">"

Vec_declaration(dT) == "Vec<" \o dT \o ">"

\* [T] with a declaration of its own
Slice_declaration_own(dT) == "[" \o dT \o "]"

Slice_declaration(dT) == "Vec<" \o dT \o ">"

HashMap_declaration(dK, dV) == "HashMap<" \o dK \o ", " \o dV \o ">"

HashSet_declaration(dT) == "HashSet<" \o dT \o ">"

BTreeMap_declaration(dK, dV) == "BTreeMap<" \o dK \o ", " \o dV \o ">"

BTreeSet_declaration(dT) == "BTreeSet<" \o dT \o ">"

\* PhantomData<T> that declares as its parameter
PhantomData_declaration_param(dT) == dT

PhantomData_declaration(dT) == Unit_declaration

\* params.join(", ")
RECURSIVE Join(_)
Join(params) ==
    IF Len(params) = 0 THEN ""
    ELSE IF Len(params) = 1 THEN params[1]
    ELSE params[1] \o ", " \o Join(Tail(params))

\* a tuple declaration that leaves out the slot declarations
Tuple_declaration_bare(params) == "Tuple"

Tuple_declaration(params) == "Tuple<" \o Join(params) \o ">"

(***************************************************************************)
(* User-defined structs with a derived schema: the struct's identifier is  *)
(* its declaration, its definition is Struct{NamedFields}, and the derived *)
(* add_definitions_recursively adds the definition and then recurses into  *)
(* every field type.                                                       *)
(***************************************************************************)
UserPaths == {"Point", "Node", "Tree", "a::Foo", "b::Foo"}

UserIdent(path) ==
    CASE path = "a::Foo" -> "Foo"
      [] path = "b::Foo" -> "Foo"
      [] OTHER -> path

UserFields(path) ==
    CASE path = "Point" -> << <<"x", Prim("u64")>>, <<"y", Prim("u64")>> >>
      [] path = "Node" -> << <<"value", Prim("u64")>>,
                             <<"next", OptionOf(BoxOf(User("Node")))>> >>
      [] path = "Tree" -> << <<"children", VecOf(User("Tree"))>> >>
      [] path = "a::Foo" -> << <<"x", Prim("u64")>> >>
      [] path = "b::Foo" -> << <<"y", Prim("String")>> >>

User_declaration(path) == UserIdent(path)

(***************************************************************************)
(* T::declaration(), by the impl that the type selects                     *)
(***************************************************************************)
RECURSIVE declaration(_)
RECURSIVE declarations(_)
declarations(Ts) ==
    IF Len(Ts) = 0 THEN <<>> ELSE <<declaration(Head(Ts))>> \o declarations(Tail(Ts))

declaration(T) ==
    CASE T.kind = "Prim" ->
            IF T.name = UnitName THEN Unit_declaration
            ELSE IF T.name \in RenamedPrimitiveNames THEN RenamedPrimitive_declaration(T.name)
            ELSE Primitive_declaration(T.name)
      [] T.kind = "Box" -> Box_declaration(declaration(T.args[1]))
      [] T.kind = "Array" -> Array_declaration(declaration(T.args[1]), T.n)
      [] T.kind = "Option" -> Option_declaration(declaration(T.args[1]))
      [] T.kind = "Result" -> Result_declaration(declaration(T.args[1]), declaration(T.args[2]))
      [] T.kind = "Vec" -> Vec_declaration(declaration(T.args[1]))
      [] T.kind = "Slice" -> Slice_declaration(declaration(T.args[1]))
      [] T.kind = "HashMap" -> HashMap_declaration(declaration(T.args[1]), declaration(T.args[2]))
      [] T.kind = "HashSet" -> HashSet_declaration(declaration(T.args[1]))
      [] T.kind = "BTreeMap" -> BTreeMap_declaration(declaration(T.args[1]), declaration(T.args[2]))
      [] T.kind = "BTreeSet" -> BTreeSet_declaration(declaration(T.args[1]))
      [] T.kind = "PhantomData" -> PhantomData_declaration(declaration(T.args[1]))
      [] T.kind = "Tuple" -> Tuple_declaration(declarations(T.args))
      [] T.kind = "User" -> User_declaration(T.name)

(***************************************************************************)
(* The body of each impl's add_definitions_recursively: the definition it  *)
(* passes to add_definition under Self::declaration() (NoDefinition when   *)
(* it calls no add_definition) and, in call order, the types whose         *)
(* add_definitions_recursively it calls afterwards.                        *)
(***************************************************************************)
Body(definition, calls) == [definition |-> definition, calls |-> calls]

Unit_add_definitions_recursively == Body(NoDefinition, <<>>)

\* a primitive that registers a definition of its own
Primitive_add_definitions_recursively_entry(name) == Body(DefTuple(<<>>), <<>>)

Primitive_add_definitions_recursively(name) == Body(NoDefinition, <<>>)

\* Box<T> that does not forward to T
Box_add_definitions_recursively_lost(T) == Body(NoDefinition, <<>>)

Box_add_definitions_recursively(T) == Body(NoDefinition, <<T>>)

Array_add_definitions_recursively(T, N) ==
    Body(DefArray(AsU32(N), declaration(T)), <<T>>)

\* Option<T> with its two variants in the wrong order
Option_add_definitions_recursively_swapped(T) ==
    Body(DefEnum(<< <<"Some", declaration(T)>>, <<"None", Unit_declaration>> >>), <<T>>)

Option_add_definitions_recursively(T) ==
    Body(DefEnum(<< <<"None", Unit_declaration>>, <<"Some", declaration(T)>> >>), <<T>>)

Result_add_definitions_recursively(T, E) ==
    Body(DefEnum(<< <<"Ok", declaration(T)>>, <<"Err", declaration(E)>> >>), <<T>>)

Vec_add_definitions_recursively(T) == Body(DefSequence(declaration(T)), <<T>>)

Slice_add_definitions_recursively(T) == Body(DefSequence(declaration(T)), <<T>>)

HashMap_add_definitions_recursively(K, V) ==
    Body(DefSequence(declaration(TupleOf(<<K, V>>))), <<TupleOf(<<K, V>>)>>)

HashSet_add_definitions_recursively(T) == Body(DefSequence(declaration(T)), <<T>>)

BTreeMap_add_definitions_recursively(K, V) ==
    Body(DefSequence(declaration(TupleOf(<<K, V>>))), <<TupleOf(<<K, V>>)>>)

BTreeSet_add_definitions_recursively(T) == Body(DefSequence(declaration(T)), <<T>>)

PhantomData_add_definitions_recursively(T) == Body(NoDefinition, <<>>)

Tuple_add_definitions_recursively(Ts) == Body(DefTuple(declarations(Ts)), Ts)

RECURSIVE FieldDeclarations(_)
FieldDeclarations(fs) ==
    IF Len(fs) = 0 THEN <<>>
    ELSE << <<Head(fs)[1], declaration(Head(fs)[2])>> >> \o FieldDeclarations(Tail(fs))

RECURSIVE FieldTypes(_)
FieldTypes(fs) ==
    IF Len(fs) = 0 THEN <<>> ELSE <<Head(fs)[2]>> \o FieldTypes(Tail(fs))

User_add_definitions_recursively(path) ==
    Body(DefStruct(NamedFields(FieldDeclarations(UserFields(path)))),
         FieldTypes(UserFields(path)))

add_definitions_recursively(T) ==
    CASE T.kind = "Prim" ->
            IF T.name = UnitName THEN Unit_add_definitions_recursively
            ELSE Primitive_add_definitions_recursively(T.name)
      [] T.kind = "Box" -> Box_add_definitions_recursively(T.args[1])
      [] T.kind = "Array" -> Array_add_definitions_recursively(T.args[1], T.n)
      [] T.kind = "Option" -> Option_add_definitions_recursively(T.args[1])
      [] T.kind = "Result" -> Result_add_definitions_recursively(T.args[1], T.args[2])
      [] T.kind = "Vec" -> Vec_add_definitions_recursively(T.args[1])
      [] T.kind = "Slice" -> Slice_add_definitions_recursively(T.args[1])
      [] T.kind = "HashMap" -> HashMap_add_definitions_recursively(T.args[1], T.args[2])
      [] T.kind = "HashSet" -> HashSet_add_definitions_recursively(T.args[1])
      [] T.kind = "BTreeMap" -> BTreeMap_add_definitions_recursively(T.args[1], T.args[2])
      [] T.kind = "BTreeSet" -> BTreeSet_add_definitions_recursively(T.args[1])
      [] T.kind = "PhantomData" -> PhantomData_add_definitions_recursively(T.args[1])
      [] T.kind = "Tuple" -> Tuple_add_definitions_recursively(T.args)
      [] T.kind = "User" -> User_add_definitions_recursively(T.name)

(***************************************************************************)
(* HashMap<Declaration, Definition> and add_definition                     *)
(***************************************************************************)
HashMap_new == [d \in {} |-> NoDefinition]

Insert(map, key, value) ==
    [d \in DOMAIN map \cup {key} |-> IF d = key THEN value ELSE map[d]]

\* add_definition that overwrites an occupied entry instead of asserting equality
add_definition_overwrite(decl, definition, map) ==
    [panicked |-> FALSE, occupied |-> decl \in DOMAIN map,
     map |-> Insert(map, decl, definition)]

\* match definitions.entry(declaration): Occupied -> assert_eq!(existing, definition),
\* Vacant -> insert.  panicked is the failed assertion; the map is left as it was.
add_definition(decl, definition, map) ==
    IF decl \in DOMAIN map
    THEN [panicked |-> map[decl] # definition, occupied |-> TRUE, map |-> map]
    ELSE [panicked |-> FALSE, occupied |-> FALSE, map |-> Insert(map, decl, definition)]

(***************************************************************************)
(* The types that schema_container is called for                           *)
(***************************************************************************)
AllPrims == {Prim(name) : name \in PrimitiveNames \cup RenamedPrimitiveNames \cup {UnitName}}

U64 == Prim("u64")
U8 == Prim("u8")
RustString == Prim("String")

\* array lengths N: 32 and 2^32 + 32
ArrayLens == {Usize(0, 32), Usize(1, 32)}

Unary(S) ==
    UNION {{BoxOf(T), OptionOf(T), VecOf(T), SliceOf(T), HashSetOf(T), BTreeSetOf(T),
            PhantomDataOf(T), TupleOf(<<T>>)} : T \in S}
    \cup {ArrayOf(T, N) : T \in S, N \in ArrayLens}

Binary(S) ==
    UNION {{ResultOf(A, B), HashMapOf(A, B), BTreeMapOf(A, B), TupleOf(<<A, B>>)} :
           <<A, B>> \in S \X S}

Base == {U64, RustString}

Level1 == Unary(Base) \cup Binary(Base)

Inner == {U64, VecOf(U64), OptionOf(RustString), BoxOf(SliceOf(U8)),
          TupleOf(<<U8, Prim("bool")>>), PhantomDataOf(VecOf(U8))}

Level2 == Unary(Level1) \cup Binary(Inner)

Level3 ==
    {TupleOf(<<T, T>>) : T \in {VecOf(VecOf(U64)), OptionOf(OptionOf(U64)),
                                HashMapOf(U64, RustString)}}
    \cup {TupleOf(<<U64, TupleOf(<<U8, Prim("bool")>>), RustString>>),
          ArrayOf(ArrayOf(ArrayOf(U64, Usize(0, 9)), Usize(0, 10)), Usize(0, 32)),
          BoxOf(Prim("str")), PhantomDataOf(RustString),
          ResultOf(VecOf(U64), VecOf(VecOf(U8)))}

UserTypes ==
    {User(path) : path \in UserPaths}
    \cup {TupleOf(<<User("a::Foo"), User("b::Foo")>>), VecOf(User("Point")),
          OptionOf(User("Node")), TupleOf(<<User("Point"), User("Point")>>)}

\* types in which different Rust types meet under one declaration, and the
\* widest tuple
SharedDeclarations ==
    {TupleOf(<<VecOf(U64), BoxOf(SliceOf(Prim("usize")))>>),
     TupleOf(<<VecOf(Prim(UnitName)), VecOf(PhantomDataOf(RustString))>>),
     TupleOf(<<ArrayOf(U64, Usize(0, 32)), ArrayOf(U64, Usize(1, 32))>>),
     TupleOf(<<HashMapOf(U64, RustString), TupleOf(<<U64, RustString>>),
               BTreeMapOf(Prim("usize"), BoxOf(Prim("str")))>>),
     TupleOf(<<ResultOf(U64, RustString), ResultOf(Prim("usize"), BoxOf(Prim("str")))>>),
     TupleOf(<<TupleOf(<<U64>>), TupleOf(<<Prim("usize")>>), OptionOf(Prim("isize")),
               OptionOf(Prim("i64"))>>),
     TupleOf([i \in 1..21 |-> IF i % 7 = 0 THEN VecOf(U64) ELSE U64])}

Types == AllPrims \cup Level1 \cup Level2 \cup Level3 \cup SharedDeclarations \cup UserTypes

\* the types of two consecutive schema_container calls of one thread
PairTypes ==
    Unary({U64, RustString, Prim("str"), VecOf(U64), OptionOf(U64)})
    \cup {U64, RustString, Prim("str"), ResultOf(U64, RustString), ResultOf(VecOf(U64), U64),
          HashMapOf(U64, RustString), BTreeMapOf(U64, RustString),
          TupleOf(<<U64, RustString>>)}

\* the types of the concurrent callers
ConcTypes == {U64, VecOf(U64), OptionOf(VecOf(U64))}

\* the arguments of direct add_definition calls
AddDeclarations == {"Foo", "Vec<u64>", "Option<u64>"}
AddDefinitions ==
    {DefSequence("u64"),
     DefEnum(<< <<"None", "nil">>, <<"Some", "u64">> >>),
     DefStruct(NamedFields(<< <<"x", "u64">> >>)),
     DefStruct(NamedFields(<< <<"y", "string">> >>))}

RECURSIVE IsBuiltin(_)
RECURSIVE AllBuiltin(_)
AllBuiltin(Ts) == Len(Ts) = 0 \/ (IsBuiltin(Head(Ts)) /\ AllBuiltin(Tail(Ts)))
IsBuiltin(T) == T.kind # "User" /\ AllBuiltin(T.args)

(***************************************************************************)
(* State                                                                   *)
(***************************************************************************)
NoType == Ty("none", "", <<>>, NoLen)
NoContainer == [declaration |-> "", definitions |-> HashMap_new, built |-> FALSE]
NoCall == [called |-> FALSE]

BorshSchemaContainer(decl, defs) ==
    [declaration |-> decl, definitions |-> defs, built |-> TRUE]

\* a call of T::add_definitions_recursively: pc = 0 before its add_definition,
\* pc = i >= 1 before its i-th recursive call; hit records that its add_definition
\* found the entry occupied
Frame(T) ==
    [ty |-> T,
     pc |-> IF add_definitions_recursively(T).definition = NoDefinition THEN 1 ELSE 0,
     hit |-> FALSE]

Top(c) == stack[c][Len(stack[c])]
Pop(s) == SubSeq(s, 1, Len(s) - 1)
SetTop(s, f) == [s EXCEPT ![Len(s)] = f]

Init ==
    /\ status = [c \in Calls |-> "idle"]
    /\ root = [c \in Calls |-> NoType]
    /\ stack = [c \in Calls |-> <<>>]
    /\ definitions = [c \in Calls |-> HashMap_new]
    /\ container = [c \in Calls |-> NoContainer]
    /\ last = [c \in Calls |-> NoCall]

(***************************************************************************)
(* schema_container and the steps of add_definitions_recursively           *)
(***************************************************************************)
\* schema_container() that starts from a map kept across calls instead of a new one
Start_cached(c, T) ==
    /\ status[c] = "idle"
    /\ status' = [status EXCEPT ![c] = "running"]
    /\ root' = [root EXCEPT ![c] = T]
    /\ definitions' = [definitions EXCEPT ![c] = definitions[1]]
    /\ stack' = [stack EXCEPT ![c] = <<Frame(T)>>]
    /\ UNCHANGED <<container, last>>

\* schema_container(): let mut definitions = HashMap::new();
\* Self::add_definitions_recursively(&mut definitions) is entered
Start(c, T) ==
    /\ status[c] = "idle"
    /\ status' = [status EXCEPT ![c] = "running"]
    /\ root' = [root EXCEPT ![c] = T]
    /\ definitions' = [definitions EXCEPT ![c] = HashMap_new]
    /\ stack' = [stack EXCEPT ![c] = <<Frame(T)>>]
    /\ UNCHANGED <<container, last>>

\* Self::add_definition(Self::declaration(), definition, definitions)
AddDefinition(c) ==
    /\ status[c] = "running"
    /\ stack[c] # <<>>
    /\ Top(c).pc = 0
    /\ LET T == Top(c).ty
           decl == declaration(T)
           def == add_definitions_recursively(T).definition
           r == add_definition(decl, def, definitions[c])
       IN  /\ last' = [last EXCEPT ![c] =
                          [called |-> TRUE, declaration |-> decl, definition |-> def,
                           before |-> definitions[c], panicked |-> r.panicked]]
           /\ definitions' = [definitions EXCEPT ![c] = r.map]
           /\ IF r.panicked
              THEN /\ status' = [status EXCEPT ![c] = "panicked"]
                   /\ UNCHANGED stack
              ELSE /\ stack' = [stack EXCEPT ![c] =
                                   SetTop(@, [Top(c) EXCEPT !.pc = 1, !.hit = r.occupied])]
                   /\ UNCHANGED status
    /\ UNCHANGED <<root, container>>

\* the next T::add_definitions_recursively(definitions) of the running frame;
\* a call that does not fit on the stack overflows it and aborts the process
Call(c) ==
    /\ status[c] = "running"
    /\ stack[c] # <<>>
    /\ LET f == Top(c)
           calls == add_definitions_recursively(f.ty).calls
       IN  /\ f.pc >= 1
           /\ f.pc <= Len(calls)
           /\ IF Len(stack[c]) >= MaxStack
              THEN /\ status' = [status EXCEPT ![c] = "stack_overflow"]
                   /\ UNCHANGED stack
              ELSE /\ stack' = [stack EXCEPT ![c] =
                                   Append(SetTop(@, [f EXCEPT !.pc = f.pc + 1]),
                                          Frame(calls[f.pc]))]
                   /\ UNCHANGED status
    /\ UNCHANGED <<root, definitions, container, last>>

\* the running frame has made all its calls and returns to its caller
Return(c) ==
    /\ status[c] = "running"
    /\ stack[c] # <<>>
    /\ Top(c).pc > Len(add_definitions_recursively(Top(c).ty).calls)
    /\ stack' = [stack EXCEPT ![c] = Pop(@)]
    /\ UNCHANGED <<status, root, definitions, container, last>>

\* schema_container(): BorshSchemaContainer { declaration: Self::declaration(), definitions }
Finish(c) ==
    /\ status[c] = "running"
    /\ stack[c] = <<>>
    /\ container' = [container EXCEPT ![c] =
                        BorshSchemaContainer(declaration(root[c]), definitions[c])]
    /\ status' = [status EXCEPT ![c] = "returned"]
    /\ UNCHANGED <<root, stack, definitions, last>>

\* one caller, any type
Next ==
    \/ \E T \in Types : Start(1, T)
    \/ AddDefinition(1)
    \/ Call(1)
    \/ Return(1)
    \/ Finish(1)

Spec == Init /\ [][Next]_vars

\* one thread, two schema_container calls one after the other
NextPair ==
    \/ \E T \in PairTypes : Start(1, T)
    \/ \E T \in PairTypes : status[1] = "returned" /\ Start(2, T)
    \/ \E c \in {1, 2} : AddDefinition(c)
    \/ \E c \in {1, 2} : Call(c)
    \/ \E c \in {1, 2} : Return(c)
    \/ \E c \in {1, 2} : Finish(c)

SpecPair == Init /\ [][NextPair]_vars

\* several callers, each with a map of its own, interleaved step by step
NextConc ==
    \/ \E c \in Calls, T \in ConcTypes : Start(c, T)
    \/ \E c \in Calls : AddDefinition(c)
    \/ \E c \in Calls : Call(c)
    \/ \E c \in Calls : Return(c)
    \/ \E c \in Calls : Finish(c)

SpecConc == Init /\ [][NextConc]_vars

\* a caller that calls add_definition itself, on a map it keeps, until a call panics
DirectAddDefinition(c, decl, definition) ==
    /\ status[c] = "idle"
    /\ LET r == add_definition(decl, definition, definitions[c])
       IN  /\ last' = [last EXCEPT ![c] =
                          [called |-> TRUE, declaration |-> decl, definition |-> definition,
                           before |-> definitions[c], panicked |-> r.panicked]]
           /\ definitions' = [definitions EXCEPT ![c] = r.map]
           /\ status' = [status EXCEPT ![c] = IF r.panicked THEN "panicked" ELSE "idle"]
    /\ UNCHANGED <<root, stack, container>>

NextAdd ==
    \E decl \in AddDeclarations, definition \in AddDefinitions :
        DirectAddDefinition(1, decl, definition)

SpecAdd == Init /\ [][NextAdd]_vars

(***************************************************************************)
(* Properties                                                              *)
(***************************************************************************)
Returned(c) == status[c] = "returned"

PrimitiveDeclarations == {declaration(T) : T \in AllPrims}

Range(seq) == {seq[i] : i \in 1..Len(seq)}

\* the declarations a definition refers to
Refs(definition) ==
    CASE definition.kind \in {"Array", "Sequence"} -> {definition.elements}
      [] definition.kind = "Tuple" -> Range(definition.elements)
      [] definition.kind = "Enum" -> {v[2] : v \in Range(definition.variants)}
      [] definition.kind = "Struct" -> {f[2] : f \in Range(definition.fields.fields)}

\* C1: add_definition succeeds exactly when the key is absent or the stored
\* definition equals the new one; on an absent key the map gains exactly that
\* entry, on an occupied key (equal or not) the map is left exactly as it was,
\* and an unequal stored definition makes the call panic.
C1_AddDefinitionContract ==
    \A c \in Calls :
        last[c].called =>
            LET L == last[c]
                absent == L.declaration \notin DOMAIN L.before
            IN  /\ (~L.panicked) <=> (absent \/ L.before[L.declaration] = L.definition)
                /\ absent =>
                      /\ DOMAIN definitions[c] = DOMAIN L.before \cup {L.declaration}
                      /\ definitions[c][L.declaration] = L.definition
                      /\ \A k \in DOMAIN L.before : definitions[c][k] = L.before[k]
                /\ ~absent => definitions[c] = L.before
                /\ L.panicked => status[c] = "panicked"

\* a conflicting add_definition call has happened: it panicked and the stored
\* definition is still the old one
C1_Witness ==
    \E c \in Calls :
        /\ last[c].called
        /\ last[c].panicked
        /\ definitions[c][last[c].declaration] # last[c].definition

\* C2: the definition map returned by schema_container() for a built-in type is
\* closed: the root declaration and every declaration referenced by a definition
\* of the map is a key of the map, unless it is a primitive declaration.
C2_SchemaComplete ==
    \A c \in Calls :
        (Returned(c) /\ IsBuiltin(root[c])) =>
            LET m == container[c].definitions
            IN  /\ container[c].declaration \notin PrimitiveDeclarations
                      => container[c].declaration \in DOMAIN m
                /\ \A k \in DOMAIN m : \A r \in Refs(m[k]) :
                      r \notin PrimitiveDeclarations => r \in DOMAIN m

\* C3 as claimed: Box<T> and PhantomData<T> both return the container of T.
C3_WrappersDelegate ==
    \A c1, c2 \in Calls :
        (/\ Returned(c1)
         /\ Returned(c2)
         /\ root[c1] \in {BoxOf(root[c2]), PhantomDataOf(root[c2])})
            => container[c1] = container[c2]

\* C3 amended: Box<T> returns the declaration and the definition map of T;
\* PhantomData<T> does not: it declares as the unit type ("nil") and adds nothing.
C3_BoxDelegates ==
    \A c1, c2 \in Calls :
        (Returned(c1) /\ Returned(c2)) =>
            /\ root[c1] = BoxOf(root[c2]) => container[c1] = container[c2]
            /\ root[c1] = PhantomDataOf(root[c2]) =>
                  /\ container[c1].declaration = "nil"
                  /\ DOMAIN container[c1].definitions = {}

\* Box<T> and T have both been collected, T contributing entries of its own, and
\* so have PhantomData<T'> and T'
C3_Witness ==
    /\ Returned(1)
    /\ Returned(2)
    /\ root[1] = BoxOf(root[2])
    /\ DOMAIN container[2].definitions # {}

\* C4: Option<T> declares as "Option<" + decl(T) + ">" and its entry is the Enum
\* (None, nil), (Some, decl(T)); its map is that entry added to the map of T
\* (one entry for Option<u64>, two for Option<Option<u64>>).  Result<T, E>
\* declares as "Result<" + decl(T) + ", " + decl(E) + ">" and its entry is the
\* Enum (Ok, decl(T)), (Err, decl(E)).
C4_OptionResultShape ==
    \A c \in Calls :
        Returned(c) =>
            LET T == root[c]
                K == container[c]
            IN  /\ T.kind = "Option" =>
                      /\ K.declaration = "Option<" \o declaration(T.args[1]) \o ">"
                      /\ K.declaration \in DOMAIN K.definitions
                      /\ K.definitions[K.declaration] =
                            [kind |-> "Enum",
                             variants |-> << <<"None", "nil">>,
                                             <<"Some", declaration(T.args[1])>> >>]
                      /\ \A c2 \in Calls :
                            (Returned(c2) /\ root[c2] = T.args[1]) =>
                                /\ K.declaration = "Option<" \o container[c2].declaration \o ">"
                                /\ DOMAIN K.definitions =
                                      DOMAIN container[c2].definitions \cup {K.declaration}
                                /\ \A k \in DOMAIN container[c2].definitions :
                                      K.definitions[k] = container[c2].definitions[k]
                      /\ T = OptionOf(U64) => Cardinality(DOMAIN K.definitions) = 1
                      /\ T = OptionOf(OptionOf(U64)) => Cardinality(DOMAIN K.definitions) = 2
                /\ T.kind = "Result" =>
                      /\ K.declaration = "Result<" \o declaration(T.args[1]) \o ", "
                                            \o declaration(T.args[2]) \o ">"
                      /\ K.declaration \in DOMAIN K.definitions
                      /\ K.definitions[K.declaration] =
                            [kind |-> "Enum",
                             variants |-> << <<"Ok", declaration(T.args[1])>>,
                                             <<"Err", declaration(T.args[2])>> >>]

\* Option<Option<u64>> has been collected after Option<u64>
C4_Witness ==
    /\ Returned(1)
    /\ Returned(2)
    /\ root[1] = OptionOf(U64)
    /\ root[2] = OptionOf(OptionOf(U64))
    /\ Cardinality(DOMAIN container[2].definitions) = 2

\* C5: no key of a definition map is a primitive declaration, no add_definition
\* call is made under a primitive declaration, and collecting a primitive type
\* leaves the map empty.
C5_PrimitivesHaveNoEntry ==
    \A c \in Calls :
        /\ DOMAIN definitions[c] \cap PrimitiveDeclarations = {}
        /\ last[c].called => last[c].declaration \notin PrimitiveDeclarations
        /\ Returned(c) =>
              /\ DOMAIN container[c].definitions \cap PrimitiveDeclarations = {}
              /\ root[c] \in AllPrims => DOMAIN container[c].definitions = {}

\* a tuple with primitive slots has been collected: its map has entries, none
\* of them for a slot
C5_Witness ==
    /\ Returned(1)
    /\ root[1] = TupleOf(<<U64, TupleOf(<<U8, Prim("bool")>>), RustString>>)
    /\ Cardinality(DOMAIN container[1].definitions) = 2

\* C6: PhantomData<T> declares as "nil" whatever T is and adds no entry, also
\* where it is the element of a sequence.
C6_PhantomDataIsNil ==
    \A c \in Calls :
        Returned(c) =>
            /\ root[c].kind = "PhantomData" =>
                  container[c] = BorshSchemaContainer("nil", HashMap_new)
            /\ (root[c].kind = "Vec" /\ root[c].args[1].kind = "PhantomData") =>
                  /\ container[c].declaration = "Vec<nil>"
                  /\ DOMAIN container[c].definitions = {"Vec<nil>"}
                  /\ container[c].definitions["Vec<nil>"] =
                        [kind |-> "Sequence", elements |-> "nil"]

\* PhantomData<Vec<u64>> has been collected
C6_Witness ==
    /\ Returned(1)
    /\ root[1] = PhantomDataOf(VecOf(U64))
    /\ declaration(VecOf(U64)) = "Vec<u64>"

\* C7: every schema_container call works on a map of its own that starts
\* empty, and returns {declaration(), that map}; two calls for the same type
\* return the same container whatever other calls ran before or in between.
C7_CallsIndependent ==
    /\ \A c \in Calls :
          /\ (status[c] = "running" /\ ~last[c].called) => DOMAIN definitions[c] = {}
          /\ Returned(c) =>
                /\ container[c].declaration = declaration(root[c])
                /\ container[c].definitions = definitions[c]
    /\ \A c1, c2 \in Calls :
          (Returned(c1) /\ Returned(c2) /\ root[c1] = root[c2])
              => container[c1] = container[c2]

\* two calls for Vec<u64> and one for Option<Vec<u64>> have all returned
C7_Witness ==
    /\ \A c \in Calls : Returned(c)
    /\ \E c1, c2, c3 \in Calls :
          /\ c1 # c2
          /\ root[c1] = VecOf(U64)
          /\ root[c2] = VecOf(U64)
          /\ root[c3] = OptionOf(VecOf(U64))
          /\ Cardinality(DOMAIN container[c3].definitions) = 2

RootDefinition(c) == container[c].definitions[container[c].declaration]

HasRootDefinition(c) ==
    Returned(c) /\ container[c].declaration \in DOMAIN container[c].definitions

\* C8 as claimed: two sequence-shaped types with the same Definition have the
\* same declaration.
C8_SameDefinitionSameDeclaration ==
    \A c1, c2 \in Calls :
        (/\ HasRootDefinition(c1)
         /\ HasRootDefinition(c2)
         /\ RootDefinition(c1).kind = "Sequence"
         /\ RootDefinition(c1) = RootDefinition(c2))
            => container[c1].declaration = container[c2].declaration

SequenceKinds == {"Vec", "Slice", "HashSet", "BTreeSet"}
MapKinds == {"HashMap", "BTreeMap"}

\* C8 amended: Vec<T> and [T] return the same declaration "Vec<" + decl(T) + ">"
\* and the same map; Vec<T>, HashSet<T> and BTreeSet<T> (and HashMap<K, V> and
\* BTreeMap<K, V>) have the same Definition but each a declaration of its own.
C8_SequenceViewsShareDeclaration ==
    \A c1, c2 \in Calls :
        (HasRootDefinition(c1) /\ HasRootDefinition(c2)) =>
            LET T1 == root[c1]
                T2 == root[c2]
            IN  /\ (T1.kind = "Vec" /\ T2.kind = "Slice" /\ T1.args = T2.args) =>
                      /\ container[c1] = container[c2]
                      /\ container[c1].declaration = "Vec<" \o declaration(T1.args[1]) \o ">"
                /\ (/\ T1.kind # T2.kind
                    /\ T1.args = T2.args
                    /\ \/ {T1.kind, T2.kind} \subseteq MapKinds
                       \/ /\ {T1.kind, T2.kind} \subseteq SequenceKinds
                          /\ {T1.kind, T2.kind} # {"Vec", "Slice"}) =>
                      /\ RootDefinition(c1) = RootDefinition(c2)
                      /\ container[c1].declaration # container[c2].declaration

\* Vec<u64> and [u64] have both been collected
C8_Witness ==
    /\ HasRootDefinition(1)
    /\ HasRootDefinition(2)
    /\ root[1] = VecOf(U64)
    /\ root[2] = SliceOf(U64)

\* C9: while a built-in type is collected, a visit whose add_definition found
\* the entry present and equal makes no further add_definition call: no frame
\* that adds a definition is ever called from under such a visit.
C9_MemoizedStop ==
    \A c \in Calls : \A i, j \in 1..Len(stack[c]) :
        (IsBuiltin(root[c]) /\ i < j /\ stack[c][i].hit)
            => add_definitions_recursively(stack[c][j].ty).definition = NoDefinition

C11_NoSpuriousConflict ==
    \A c \in Calls :
        (status[c] # "idle" /\ IsBuiltin(root[c])) =>
            /\ (last[c].called /\ last[c].declaration \in DOMAIN last[c].before)
                  => last[c].before[last[c].declaration] = last[c].definition
            /\ last[c].called => ~last[c].panicked
            /\ status[c] \in {"running", "returned"}
            /\ status[c] = "running"
                  => ENABLED (AddDefinition(c) \/ Call(c) \/ Return(c) \/ Finish(c))

\* a built-in type has been collected in which a declaration was visited twice:
\* its last add_definition call found the key present, and the call returned
C11_Witness ==
    \E c \in Calls :
        /\ Returned(c)
        /\ IsBuiltin(root[c])
        /\ last[c].called
        /\ last[c].declaration \in DOMAIN last[c].before
        /\ Cardinality(DOMAIN container[c].definitions) >= 2

\* C12: for a fixed array [T; N] the declaration is "Array<" + decl(T) + ", " +
\* N + ">" and the definition stored under it is Array{length: N, elements:
\* decl(T)}: the recorded length is the N of the declaration, also for N >= 2^32.
C12_ArrayLengthAgrees ==
    \A c \in Calls :
        (Returned(c) /\ root[c].kind = "Array") =>
            LET K == container[c]
                dT == declaration(root[c].args[1])
            IN  /\ K.declaration = "Array<" \o dT \o ", " \o FormatUsize(root[c].n) \o ">"
                /\ K.declaration \in DOMAIN K.definitions
                /\ K.definitions[K.declaration].kind = "Array"
                /\ K.definitions[K.declaration].elements = dT
                /\ Usize(0, K.definitions[K.declaration].length) = root[c].n

====
